---- MODULE Spec2Model ----
(***************************************************************************)
(* The inheritance inliner of the transpiler (InheritanceInliner): the     *)
(* scheduler InheritanceInliner.map and the per-contract flattening done   *)
(* by visitContractDefinition, over an abstract syntax tree whose          *)
(* reference nodes live in a heap, so that a node shared by two trees is   *)
(* one node.                                                               *)
(*                                                                         *)
(* A contract is a record                                                  *)
(*   lin   : vLinearizedBaseContracts (ids, the contract itself first)     *)
(*   funcs : vFunctions in child order, the constructor among them         *)
(*   vars  : vStateVariables in child order                                *)
(*   mods  : vModifiers in child order                                     *)
(*   specs : vInheritanceSpecifiers                                        *)
(* a function is [id, name, vis, isCtor, scope, nparams, minv, hasBody,    *)
(* body]; a modifier invocation is [ref, args] (the node naming the        *)
(* modifier or base contract, the argument expressions); a statement is    *)
(* [src, refs]: its source location ("" in the code is 0 here) and the     *)
(* reference nodes inside it, the callee first.  A reference node is a     *)
(* heap cell [kind, ref, name]: Identifier, IdentifierPath or MemberAccess,*)
(* its referencedDeclaration and the name it carries.                      *)
(***************************************************************************)
EXTENDS Integers, Sequences, FiniteSets, TLC

\* Contracts of a compilation unit are numbered 1..MaxContracts; a contract's
\* number is its node id.
MaxContracts == 4
\* The scheduler is run on every assignment of base lists to the first
\* SchedContracts contracts.
SchedContracts == 3

CIds == 1..MaxContracts

VARIABLES
  ctr,                   \* the tree: contract id -> contract
  heap,                  \* reference node id -> [kind, ref, name]
  nextId,                \* the id ast.reserveId() hands out next
  contracts,             \* map's local `contracts`: the pending ones, in order
  mostDerivedContracts,  \* the part of the round's batch not yet visited
  visited,               \* the calls of visitContractDefinition so far, in order
  flattened,             \* the contracts whose visit returned
  result,                \* "running", "returned", or the message thrown
  orig                   \* the tree and heap map() was called with

vars == <<ctr, heap, nextId, contracts, mostDerivedContracts, visited,
          flattened, result, orig>>

----------------------------------------------------------------------------
\* Sequences and finite maps.

Reverse(s) == [i \in 1..Len(s) |-> s[Len(s) + 1 - i]]

Range(s) == {s[i] : i \in DOMAIN s}

IndexOf(s, x) == CHOOSE i \in DOMAIN s : s[i] = x

Put(m, k, v) == [x \in (DOMAIN m) \cup {k} |-> IF x = k THEN v ELSE m[x]]

RECURSIVE Flatten(_)
Flatten(ss) == IF ss = <<>> THEN <<>> ELSE Head(ss) \o Flatten(Tail(ss))

EmptyMap == [x \in {} |-> 0]

----------------------------------------------------------------------------
\* The reference nodes of a subtree, in walk order.

InvocationNodes(mi) == <<mi.ref>> \o mi.args

FunctionNodes(f) ==
  Flatten([j \in DOMAIN f.minv |-> InvocationNodes(f.minv[j])])
    \o Flatten([j \in DOMAIN f.body |-> f.body[j].refs])

ContractNodes(c) ==
  Flatten([j \in DOMAIN c.funcs |-> FunctionNodes(c.funcs[j])])
    \o Flatten([j \in DOMAIN c.specs |-> c.specs[j].args])

\* f with every reference node n replaced by r[n].
MapFunctionNodes(f, r) ==
  [f EXCEPT
     !.minv = [j \in DOMAIN f.minv |->
                 [ref  |-> r[f.minv[j].ref],
                  args |-> [k \in DOMAIN f.minv[j].args |-> r[f.minv[j].args[k]]]]],
     !.body = [j \in DOMAIN f.body |->
                 [src  |-> f.body[j].src,
                  refs |-> [k \in DOMAIN f.body[j].refs |-> r[f.body[j].refs[k]]]]]]

\* cloneASTNode: a deep copy whose nodes all get fresh ids; a reference keeps
\* its referencedDeclaration and name.  s is [ctr, heap, nextId, err].
cloneNodes(nodes, s) ==
  [heap   |-> [x \in (DOMAIN s.heap) \cup {s.nextId + k : k \in DOMAIN nodes} |->
                 IF x \in DOMAIN s.heap THEN s.heap[x] ELSE s.heap[nodes[x - s.nextId]]],
   rename |-> [n \in Range(nodes) |-> s.nextId + IndexOf(nodes, n)]]

cloneFunction(f, s) ==
  LET nodes == FunctionNodes(f)
      cl    == cloneNodes(nodes, s)
  IN  [node |-> [MapFunctionNodes(f, cl.rename) EXCEPT !.id = s.nextId + Len(nodes) + 1],
       s    |-> [s EXCEPT !.heap = cl.heap, !.nextId = s.nextId + Len(nodes) + 2]]

cloneDeclaration(d, s) ==
  [node |-> [d EXCEPT !.id = s.nextId],
   s    |-> [s EXCEPT !.nextId = s.nextId + 1]]

\* node.appendChild / node.insertAtBeginning on contract n.
appendFunction(s, n, f) == [s EXCEPT !.ctr[n].funcs = Append(@, f)]

----------------------------------------------------------------------------
\* getBaseContracts: the linearized list without its first element.
getBaseContracts(node) == Tail(node.lin)

isExternallyVisible(f) == f.vis \in {"external", "public"}

\* ContractDefinition.vConstructor, as a sequence of length 0 or 1.
vConstructor(node) == SelectSeq(node.funcs, LAMBDA f : f.isCtor)

----------------------------------------------------------------------------
\* Constructor linearizer.

\* getArguments, first loop: a constructor's modifier invocation that names a
\* contract records its argument expressions for that contract.
RECURSIVE argsFromInvocations(_, _, _)
argsFromInvocations(minv, h, args) ==
  IF minv = <<>> THEN args
  ELSE LET modInvocation == Head(minv)
           contractDef   == h[modInvocation.ref].ref
       IN  argsFromInvocations(Tail(minv), h,
             IF contractDef \in CIds
             THEN Put(args, contractDef, modInvocation.args)
             ELSE args)

\* getArguments, second loop: a specifier's arguments are recorded when the
\* base has none yet or fewer than the specifier gives.
RECURSIVE argsFromSpecifiers(_, _)
argsFromSpecifiers(specs, args) ==
  IF specs = <<>> THEN args
  ELSE LET specifier == Head(specs)
       IN  argsFromSpecifiers(Tail(specs),
             IF specifier.base \notin DOMAIN args
                  \/ Len(args[specifier.base]) < Len(specifier.args)
             THEN Put(args, specifier.base, specifier.args)
             ELSE args)

getArguments(contract, h, args) ==
  LET constructorFunc == vConstructor(contract)
  IN  argsFromSpecifiers(contract.specs,
        IF constructorFunc # <<>>
        THEN argsFromInvocations(constructorFunc[1].minv, h, args)
        ELSE args)

\* The first loop of solveConstructorInheritance, over the whole linearized
\* list, the contract itself included.
RECURSIVE collectArguments(_, _, _)
collectArguments(lin, s, args) ==
  IF lin = <<>> THEN args
  ELSE collectArguments(Tail(lin), s, getArguments(s.ctr[Head(lin)], s.heap, args))

createFunctionFromConstructor(constructorFunc, id, s) ==
  LET cl == cloneFunction(constructorFunc, s)
  IN  [node |-> [cl.node EXCEPT !.name   = "__warp_constructor_" \o ToString(id),
                                !.vis    = "private",
                                !.isCtor = FALSE],
       s    |-> cl.s]

\* generateFunctionCall(functionDef, args, ast): a call whose callee is a new
\* Identifier of functionDef and whose arguments are the nodes it is given.
generateFunctionCall(functionDef, argList, s) ==
  [refs |-> <<s.nextId + 1>> \o argList,
   s    |-> [s EXCEPT
               !.heap   = Put(@, s.nextId + 1,
                              [kind |-> "Identifier", ref |-> functionDef.id,
                               name |-> functionDef.name]),
               !.nextId = s.nextId + 2]]

\* The bases in linearized order, nearest first: the order without reverse().
ConstructorOrderNearestFirst(node) == Tail(node.lin)

\* linearizedBaseContracts.slice(1).reverse()
ConstructorOrder(node) == Reverse(Tail(node.lin))

\* The second loop: one private clone and one call statement per base that
\* has a constructor.  acc is [s, statements]; bases is the tree the
\* `constructors` map was filled from.
RECURSIVE callConstructors(_, _, _, _, _)
callConstructors(order, n, args, bases, acc) ==
  IF order = <<>> \/ acc.s.err # "" THEN acc
  ELSE
    LET contractId      == Head(order)
        constructorFunc == vConstructor(bases[contractId])
    IN  IF constructorFunc = <<>>
        THEN callConstructors(Tail(order), n, args, bases, acc)
        ELSE
          LET cl      == createFunctionFromConstructor(constructorFunc[1], contractId, acc.s)
              s1      == appendFunction(cl.s, n, cl.node)
              argList == IF contractId \in DOMAIN args THEN args[contractId] ELSE <<>>
              call    == generateFunctionCall(cl.node, argList,
                                              [s1 EXCEPT !.nextId = @ + 1])
          IN  IF constructorFunc[1].nparams # Len(argList)
              THEN [s          |-> [s1 EXCEPT !.err = "Wrong number of arguments in constructor"],
                    statements |-> acc.statements]
              ELSE callConstructors(Tail(order), n, args, bases,
                     [s          |-> call.s,
                      statements |-> Append(acc.statements,
                                            [src |-> 0, refs |-> call.refs])])

\* createDefaultConstructor: a new constructor with no body; it is returned
\* to the caller and made nobody's child.
createDefaultConstructor(n, s) ==
  [node |-> [id |-> s.nextId, name |-> "", vis |-> "public", isCtor |-> TRUE,
             scope |-> n, nparams |-> 0, minv |-> <<>>, hasBody |-> FALSE,
             body |-> <<>>],
   s    |-> [s EXCEPT !.nextId = @ + 3]]

\* generateBody: the statements become the constructor's body.
generateBody(statements, constructorFunc, s) ==
  [node |-> [constructorFunc EXCEPT !.hasBody = TRUE, !.body = statements],
   s    |-> [s EXCEPT !.nextId = @ + 1]]

cloneBody(body, s) ==
  LET nodes == Flatten([j \in DOMAIN body |-> body[j].refs])
      cl    == cloneNodes(nodes, s)
  IN  [node |-> [j \in DOMAIN body |->
                   [src  |-> body[j].src,
                    refs |-> [k \in DOMAIN body[j].refs |-> cl.rename[body[j].refs[k]]]]],
       s    |-> [s EXCEPT !.heap = cl.heap, !.nextId = s.nextId + Len(nodes) + 1]]

\* The end of solveConstructorInheritance: the calls go in front of the
\* contract's own constructor body.
prependConstructorCalls(s, n, statements) ==
  LET node == s.ctr[n]
      own  == {i \in DOMAIN node.funcs : node.funcs[i].isCtor}
  IN  IF own = {}
      THEN LET d == createDefaultConstructor(n, s)
           IN  generateBody(statements, d.node, d.s).s
      ELSE
        LET i == CHOOSE i \in own : \A j \in own : i <= j
            selfConstructor == node.funcs[i]
        IN  IF ~selfConstructor.hasBody
            THEN LET g == generateBody(statements, selfConstructor, s)
                 IN  [g.s EXCEPT !.ctr[n].funcs[i] = g.node]
            ELSE LET cl == cloneBody(selfConstructor.body, s)
                 IN  [cl.s EXCEPT !.ctr[n].funcs[i].body = statements \o cl.node,
                                  !.nextId = @ + 1]

solveConstructorInheritance(s, n) ==
  LET node == s.ctr[n]
      args == collectArguments(node.lin, s, EmptyMap)
      r    == callConstructors(ConstructorOrder(node), n, args, s.ctr,
                               [s |-> s, statements |-> <<>>])
  IN  IF r.s.err # "" \/ r.statements = <<>>
      THEN r.s
      ELSE prependConstructorCalls(r.s, n, r.statements)

----------------------------------------------------------------------------
\* Function flattener.

\* A remapping table maps a base declaration's id to [id, name] of its clone.
remapTo(idRemapping, old, clone) ==
  Put(idRemapping, old, [id |-> clone.id, name |-> clone.name])

\* The inner loop of addPrivateSuperFunctions, for the base at `depth`.
\* acc is [s, idRemapping].
RECURSIVE cloneSuperFunctions(_, _, _, _)
cloneSuperFunctions(funcs, depth, n, acc) ==
  IF funcs = <<>> THEN acc
  ELSE
    LET func == Head(funcs)
        cl   == cloneFunction(func, acc.s)
        clonedFunction == [cl.node EXCEPT !.name  = @ \o "_s" \o ToString(depth + 1),
                                          !.vis   = "private",
                                          !.scope = n]
    IN  cloneSuperFunctions(Tail(funcs), depth, n,
          [s           |-> appendFunction(cl.s, n, clonedFunction),
           idRemapping |-> remapTo(acc.idRemapping, func.id, clonedFunction)])

RECURSIVE cloneSuperFunctionsOfBases(_, _, _, _)
cloneSuperFunctionsOfBases(bases, depth, n, acc) ==
  IF bases = <<>> THEN acc
  ELSE cloneSuperFunctionsOfBases(Tail(bases), depth + 1, n,
         cloneSuperFunctions(
           SelectSeq(acc.s.ctr[Head(bases)].funcs, LAMBDA func : ~func.isCtor),
           depth, n, acc))

addPrivateSuperFunctions(s, n) ==
  cloneSuperFunctionsOfBases(getBaseContracts(s.ctr[n]), 0, n,
                             [s |-> s, idRemapping |-> EmptyMap])

\* A JavaScript Set or Map keeps insertion order: a sequence without repeats.
RECURSIVE addAll(_, _)
addAll(set, items) ==
  IF items = <<>> THEN set
  ELSE addAll(IF Head(items) \in Range(set) THEN set ELSE Append(set, Head(items)),
              Tail(items))

\* The contracts squashInterface recurses through: n, its first base, that
\* one's first base, and so on.  The recursion has no end when one comes up
\* twice.
RECURSIVE firstBaseChain(_, _, _)
firstBaseChain(tree, n, seen) ==
  IF n \in Range(seen) THEN [cyclic |-> TRUE, chain |-> seen]
  ELSE IF getBaseContracts(tree[n]) = <<>>
       THEN [cyclic |-> FALSE, chain |-> Append(seen, n)]
       ELSE firstBaseChain(tree, Head(getBaseContracts(tree[n])), Append(seen, n))

RECURSIVE squashInterface(_, _)
squashInterface(tree, n) ==
  LET node  == tree[n]
      own   == SelectSeq(node.funcs, LAMBDA func : isExternallyVisible(func) /\ ~func.isCtor)
      visibleFunctions == addAll(<<>>, [i \in DOMAIN own |-> own[i].name])
      bases == getBaseContracts(node)
  IN  IF Len(bases) > 0
      THEN addAll(visibleFunctions, squashInterface(tree, bases[1]))
      ELSE visibleFunctions

\* The result is [err, f]: the message thrown, or the function found (a
\* sequence of length 1).
RECURSIVE resolveFunctionName(_, _, _)
resolveFunctionName(tree, n, functionName) ==
  LET node    == tree[n]
      matches == SelectSeq(node.funcs, LAMBDA f : f.name = functionName)
      base    == getBaseContracts(node)
  IN  IF Len(matches) > 1
      THEN [err |-> "InheritanceInliner expects unique function names", f |-> <<>>]
      ELSE IF Len(matches) = 1
      THEN [err |-> "", f |-> matches]
      ELSE IF Len(base) = 0
      THEN [err |-> "Failed to find function", f |-> <<>>]
      ELSE resolveFunctionName(tree, base[1], functionName)

cloneInvocations(minv, s) ==
  LET nodes == Flatten([j \in DOMAIN minv |-> InvocationNodes(minv[j])])
      cl    == cloneNodes(nodes, s)
  IN  [node |-> [j \in DOMAIN minv |->
                   [ref  |-> cl.rename[minv[j].ref],
                    args |-> [k \in DOMAIN minv[j].args |-> cl.rename[minv[j].args[k]]]]],
       s    |-> [s EXCEPT !.heap = cl.heap, !.nextId = s.nextId + Len(nodes) + Len(minv)]]

\* createDelegatingFunction: funcToCopy's name, visibility and parameters, and
\* a body that returns the call of delegate.
createDelegatingFunction(funcToCopy, delegate, scope, s) ==
  LET cl    == cloneInvocations(funcToCopy.minv, s)
      ident == cl.s.nextId + 4
  IN  [node |-> [id |-> cl.s.nextId, name |-> funcToCopy.name, vis |-> funcToCopy.vis,
                 isCtor |-> funcToCopy.isCtor, scope |-> scope,
                 nparams |-> funcToCopy.nparams, minv |-> cl.node, hasBody |-> TRUE,
                 body |-> <<[src |-> 0, refs |-> <<ident>>]>>],
       s    |-> [cl.s EXCEPT
                   !.heap   = Put(@, ident, [kind |-> "Identifier", ref |-> delegate.id,
                                             name |-> delegate.name]),
                   !.nextId = ident + 1]]

\* The last loop of addNonoverridenPublicFunctions.
RECURSIVE moveFunctions(_, _, _, _)
moveFunctions(functionsToMove, n, idRemapping, s) ==
  IF functionsToMove = <<>> \/ s.err # "" THEN s
  ELSE
    LET f == Head(functionsToMove)
    IN  IF f.id \notin DOMAIN idRemapping
        THEN [s EXCEPT !.err = "Unable to find inlined base function"]
        ELSE IF f.isCtor
        THEN [s EXCEPT !.err = "Attempted to copy non-member function"]
        ELSE LET d == createDelegatingFunction(f, idRemapping[f.id], n, s)
             IN  moveFunctions(Tail(functionsToMove), n, idRemapping,
                               appendFunction(d.s, n, d.node))

addNonoverridenPublicFunctions(s, n, idRemapping) ==
  IF firstBaseChain(s.ctr, n, <<>>).cyclic
  THEN [s EXCEPT !.err = "Maximum call stack size exceeded"]
  ELSE
    LET visibleFunctionNames == squashInterface(s.ctr, n)
        resolved == [i \in DOMAIN visibleFunctionNames |->
                       resolveFunctionName(s.ctr, n, visibleFunctionNames[i])]
        failed   == {i \in DOMAIN resolved : resolved[i].err # ""}
    IN  IF failed # {}
        THEN [s EXCEPT !.err = resolved[CHOOSE i \in failed : \A j \in failed : i <= j].err]
        ELSE moveFunctions(
               SelectSeq([i \in DOMAIN resolved |-> resolved[i].f[1]],
                         LAMBDA func : func.scope # n),
               n, idRemapping, s)

----------------------------------------------------------------------------
\* Storage flattener.

\* Map.set for each declaration: a name already in the map keeps its place
\* and gets the new declaration.
RECURSIVE setAll(_, _)
setAll(map, decls) ==
  IF decls = <<>> THEN map
  ELSE LET decl == Head(decls)
       IN  setAll(IF \E i \in DOMAIN map : map[i].name = decl.name
                  THEN [i \in DOMAIN map |-> IF map[i].name = decl.name THEN decl ELSE map[i]]
                  ELSE Append(map, decl),
                  Tail(decls))

RECURSIVE mergeVariables(_, _, _)
mergeVariables(bases, tree, map) ==
  IF bases = <<>> THEN map
  ELSE mergeVariables(Tail(bases), tree, setAll(map, tree[Head(bases)].vars))

inheritedVariables(tree, n) ==
  mergeVariables(Reverse(getBaseContracts(tree[n])), tree, <<>>)

\* node.insertAtBeginning(newVariable)
insertVariable(s, n, newVariable) == [s EXCEPT !.ctr[n].vars = <<newVariable>> \o @]

RECURSIVE cloneVariables(_, _, _)
cloneVariables(variables, n, acc) ==
  IF variables = <<>> THEN acc
  ELSE LET variable == Head(variables)
           cl       == cloneDeclaration(variable, acc.s)
       IN  cloneVariables(Tail(variables), n,
             [s           |-> insertVariable(cl.s, n, cl.node),
              idRemapping |-> remapTo(acc.idRemapping, variable.id, cl.node)])

addStorageVariables(s, n) ==
  cloneVariables(inheritedVariables(s.ctr, n), n, [s |-> s, idRemapping |-> EmptyMap])

----------------------------------------------------------------------------
\* Modifier flattener.  acc is [s, idRemapping, modifierNames].

RECURSIVE cloneModifiers(_, _, _)
cloneModifiers(modifiers, n, acc) ==
  IF modifiers = <<>> THEN acc
  ELSE
    LET modifier == Head(modifiers)
        cl       == cloneDeclaration(modifier, acc.s)
    IN  cloneModifiers(Tail(modifiers), n,
          IF modifier.name \in acc.modifierNames
          THEN acc
          ELSE [s             |-> [cl.s EXCEPT !.ctr[n].mods = Append(@, cl.node)],
                idRemapping   |-> remapTo(acc.idRemapping, modifier.id, cl.node),
                modifierNames |-> acc.modifierNames \cup {modifier.name}])

RECURSIVE cloneModifiersOfBases(_, _, _)
cloneModifiersOfBases(bases, n, acc) ==
  IF bases = <<>> THEN acc
  ELSE cloneModifiersOfBases(Tail(bases), n,
         cloneModifiers(acc.s.ctr[Head(bases)].mods, n, acc))

addNonOverridenModifiers(s, n) ==
  cloneModifiersOfBases(getBaseContracts(s.ctr[n]), n,
    [s |-> s, idRemapping |-> EmptyMap,
     modifierNames |-> {s.ctr[n].mods[i].name : i \in DOMAIN s.ctr[n].mods}])

----------------------------------------------------------------------------
\* Reference rewriter.

\* The contract with every reference node x of its subtree replaced by r[x].
MapContractNodes(c, r) ==
  [c EXCEPT
     !.funcs = [j \in DOMAIN c.funcs |-> MapFunctionNodes(c.funcs[j], r)],
     !.specs = [j \in DOMAIN c.specs |->
                  [base |-> c.specs[j].base,
                   args |-> [k \in DOMAIN c.specs[j].args |-> r[c.specs[j].args[k]]]]]]

\* updateReferencedDeclarations: an Identifier or IdentifierPath whose target
\* is a key of the table is rewritten where it stands; a MemberAccess whose
\* target is a key is replaced, in this contract, by a new Identifier.
updateReferencedDeclarations(s, n, idRemapping) ==
  LET nodes    == addAll(<<>>, ContractNodes(s.ctr[n]))
      hit(x)   == s.heap[x].ref \in DOMAIN idRemapping
      accesses == SelectSeq(nodes, LAMBDA x : s.heap[x].kind = "MemberAccess" /\ hit(x))
      fresh    == {s.nextId + k - 1 : k \in DOMAIN accesses}
      repl     == [x \in Range(nodes) |->
                     IF x \in Range(accesses)
                     THEN s.nextId + IndexOf(accesses, x) - 1 ELSE x]
      rewritten(x) == [kind |-> "Identifier",
                       ref  |-> idRemapping[s.heap[x].ref].id,
                       name |-> idRemapping[s.heap[x].ref].name]
  IN  [s EXCEPT
         !.heap   = [x \in (DOMAIN s.heap) \cup fresh |->
                       IF x \in fresh THEN rewritten(accesses[x - s.nextId + 1])
                       ELSE IF x \in Range(nodes) /\ x \notin Range(accesses) /\ hit(x)
                       THEN [rewritten(x) EXCEPT !.kind = s.heap[x].kind]
                       ELSE s.heap[x]],
         !.nextId = s.nextId + Len(accesses),
         !.ctr[n] = MapContractNodes(@, repl)]

----------------------------------------------------------------------------
\* visitContractDefinition, last statement first.  What a step throws leaves
\* the visit: the later steps are not run and what the earlier ones did to
\* the tree stays done.  this.commonVisit(node, ast) walks the contract's
\* children with the mapper's default visitors and changes nothing.

\* updateReferencedDeclarations, three times.
visitReferences(modifierRemapping, functionIds, variableIds, n) ==
  updateReferencedDeclarations(
    updateReferencedDeclarations(
      updateReferencedDeclarations(modifierRemapping.s, n, functionIds),
      n, variableIds),
    n, modifierRemapping.idRemapping)

\* addNonOverridenModifiers
visitModifiers(variableRemapping, functionIds, n) ==
  visitReferences(addNonOverridenModifiers(variableRemapping.s, n),
                  functionIds, variableRemapping.idRemapping, n)

\* addStorageVariables
visitStorage(s, functionIds, n) ==
  IF s.err # "" THEN s
  ELSE visitModifiers(addStorageVariables(s, n), functionIds, n)

\* addNonoverridenPublicFunctions
visitPublicFunctions(functionRemapping, n) ==
  visitStorage(addNonoverridenPublicFunctions(functionRemapping.s, n,
                                              functionRemapping.idRemapping),
               functionRemapping.idRemapping, n)

\* addPrivateSuperFunctions
visitSuperFunctions(s, n) ==
  IF s.err # "" THEN s
  ELSE visitPublicFunctions(addPrivateSuperFunctions(s, n), n)

visitContractDefinition(s, n) ==
  IF Len(s.ctr[n].lin) < 2 THEN s
  ELSE visitSuperFunctions(solveConstructorInheritance(s, n), n)

----------------------------------------------------------------------------
\* InheritanceInliner.map

\* The filter with the two contracts of its test exchanged: the contracts
\* that have no pending base.
LeastDerived(tree, pending) ==
  SelectSeq(pending,
            LAMBDA derivedContract :
              ~\E i \in DOMAIN pending :
                 pending[i] \in Range(getBaseContracts(tree[derivedContract])))

\* The contracts of `pending` that no contract of `pending` has among its
\* base contracts.
MostDerived(tree, pending) ==
  SelectSeq(pending,
            LAMBDA derivedContract :
              ~\E i \in DOMAIN pending :
                 derivedContract \in Range(getBaseContracts(tree[pending[i]])))

----------------------------------------------------------------------------
\* The trees map() is run on.  Contract c's declarations and nodes have the
\* ids 100c+1 .. 100c+99; ast.reserveId() starts above all of them.

FirstFreshId == 100 * (MaxContracts + 1)

mkFunction(c, i, name, vis, minv, body) ==
  [id |-> 100 * c + i, name |-> name, vis |-> vis, isCtor |-> FALSE, scope |-> c,
   nparams |-> 0, minv |-> minv, hasBody |-> TRUE, body |-> body]

mkConstructor(c, nparams, minv, hasBody, body) ==
  [id |-> 100 * c + 9, name |-> "", vis |-> "public", isCtor |-> TRUE, scope |-> c,
   nparams |-> nparams, minv |-> minv, hasBody |-> hasBody, body |-> body]

mkDeclaration(c, i, name) == [id |-> 100 * c + i, name |-> name, scope |-> c]

mkSpecifiers(direct, args) ==
  [k \in DOMAIN direct |-> [base |-> direct[k], args |-> args[k]]]

NoArgs(direct) == [k \in DOMAIN direct |-> <<>>]

\* A hierarchy: each contract's linearized list and the bases its header
\* names.  A contract the hierarchy does not mention stands alone.
LinOf(shape, c) == IF c \in DOMAIN shape.lin THEN shape.lin[c] ELSE <<c>>
DirectOf(shape, c) == IF c \in DOMAIN shape.direct THEN shape.direct[c] ELSE <<>>

Chain ==      \* 1 is 2, 2 is 3
  [lin    |-> (1 :> <<1, 2, 3>>) @@ (2 :> <<2, 3>>),
   direct |-> (1 :> <<2>>) @@ (2 :> <<3>>)]
TwoBases ==   \* 1 is 3, 2
  [lin    |-> (1 :> <<1, 2, 3>>),
   direct |-> (1 :> <<3, 2>>)]
Diamond ==    \* 1 is 3, 2; 2 is 4; 3 is 4
  [lin    |-> (1 :> <<1, 2, 3, 4>>) @@ (2 :> <<2, 4>>) @@ (3 :> <<3, 4>>),
   direct |-> (1 :> <<3, 2>>) @@ (2 :> <<4>>) @@ (3 :> <<4>>)]
Siblings ==   \* 1 is 3, 2 is 3
  [lin    |-> (1 :> <<1, 3>>) @@ (2 :> <<2, 3>>),
   direct |-> (1 :> <<3>>) @@ (2 :> <<3>>)]
Cyclic ==     \* 1 is 2, 2 is 1, 3 is 4: no front end produces it
  [lin    |-> (1 :> <<1, 2>>) @@ (2 :> <<2, 1>>) @@ (3 :> <<3, 4>>),
   direct |-> (1 :> <<2>>) @@ (2 :> <<1>>) @@ (3 :> <<4>>)]

Shapes == {Chain, TwoBases, Diamond, Siblings, Cyclic}

\* The nearest contract of lin whose declarations `decls` (a field name's
\* values per contract) have one named `name`; 0 when none has.
RECURSIVE nearest(_, _, _)
nearest(lin, declares, name) ==
  IF lin = <<>> THEN 0
  ELSE IF name \in declares[Head(lin)] THEN Head(lin)
  ELSE nearest(Tail(lin), declares, name)

RECURSIVE mergeHeaps(_, _)
mergeHeaps(hs, c) == IF c = 0 THEN EmptyMap ELSE hs[c] @@ mergeHeaps(hs, c - 1)

Program(cs, hs) == [ctr |-> cs, heap |-> mergeHeaps(hs, MaxContracts)]

\* --- functions only: each contract declares f (external, internal or not at
\* all) and g (public or not at all).
FunctionOptions == [f : BOOLEAN, g : BOOLEAN]

\* An override keeps the visibility of what it overrides, so every f of one
\* program has the visibility fvis.
FunctionContract(c, shape, o, fvis) ==
  [lin   |-> LinOf(shape, c),
   funcs |-> (IF o.f THEN <<mkFunction(c, 1, "f", fvis, <<>>, <<>>)>> ELSE <<>>)
             \o (IF o.g THEN <<mkFunction(c, 2, "g", "public", <<>>, <<>>)>> ELSE <<>>),
   vars  |-> <<>>,
   mods  |-> <<>>,
   specs |-> mkSpecifiers(DirectOf(shape, c), NoArgs(DirectOf(shape, c)))]

FunctionPrograms ==
  {Program([c \in CIds |-> FunctionContract(c, shape, opts[c], fvis)],
           [c \in CIds |-> EmptyMap]) :
     shape \in Shapes, opts \in [CIds -> FunctionOptions], fvis \in {"external", "internal"}}

\* --- state variables only: each contract declares up to MaxVars of x, y, z.
MaxVars == 2
VarNames == {"x", "y", "z"}
RECURSIVE SeqsUpTo(_, _)
SeqsUpTo(S, k) ==
  IF k = 0 THEN {<<>>}
  ELSE SeqsUpTo(S, k - 1)
         \cup {Append(s, x) : s \in {q \in SeqsUpTo(S, k - 1) : Len(q) = k - 1}, x \in S}
DistinctSeqs(S, k) ==
  {s \in SeqsUpTo(S, k) : \A i, j \in DOMAIN s : i # j => s[i] # s[j]}

StorageContract(c, shape, names) ==
  [lin   |-> LinOf(shape, c),
   funcs |-> <<>>,
   vars  |-> [i \in DOMAIN names |-> mkDeclaration(c, 10 + i, names[i])],
   mods  |-> <<>>,
   specs |-> mkSpecifiers(DirectOf(shape, c), NoArgs(DirectOf(shape, c)))]

StoragePrograms ==
  {Program([c \in CIds |-> StorageContract(c, shape, IF c \in DOMAIN names THEN names[c] ELSE <<>>)],
           [c \in CIds |-> EmptyMap]) :
     shape \in Shapes, names \in [1..3 -> DistinctSeqs(VarNames, MaxVars)]}

\* --- references: every contract declares a state variable v<c> and an
\* internal function h; it may declare a modifier m.  h invokes the modifier m
\* that its contract sees (the nearest declaration in the contract's own
\* linearized list) and, in a contract with bases, refers to its first base's
\* h (as an Identifier or through a MemberAccess) and to its first base's
\* variable.
ReferenceOptions == [m : BOOLEAN, kind : {"Identifier", "MemberAccess"}]
DefaultReference == [m |-> FALSE, kind |-> "Identifier"]

ReferenceContract(c, shape, opts) ==
  LET lin      == LinOf(shape, c)
      declares == [b \in CIds |-> IF opts[b].m THEN {"m"} ELSE {}]
      seen     == nearest(lin, declares, "m")
  IN  [lin   |-> lin,
       funcs |-> <<mkFunction(c, 1, "h", "internal",
                     IF seen = 0 THEN <<>> ELSE <<[ref |-> 100 * c + 31, args |-> <<>>]>>,
                     IF Len(lin) < 2 THEN <<>>
                     ELSE <<[src |-> 100 * c + 61, refs |-> <<100 * c + 32>>],
                            [src |-> 100 * c + 62, refs |-> <<100 * c + 33>>]>>)>>,
       vars  |-> <<mkDeclaration(c, 11, "v" \o ToString(c))>>,
       mods  |-> IF opts[c].m THEN <<mkDeclaration(c, 21, "m")>> ELSE <<>>,
       specs |-> mkSpecifiers(DirectOf(shape, c), NoArgs(DirectOf(shape, c)))]

ReferenceHeap(c, shape, opts) ==
  LET lin      == LinOf(shape, c)
      declares == [b \in CIds |-> IF opts[b].m THEN {"m"} ELSE {}]
      seen     == nearest(lin, declares, "m")
  IN  (IF seen = 0 THEN EmptyMap
       ELSE (100 * c + 31) :> [kind |-> "IdentifierPath", ref |-> 100 * seen + 21,
                               name |-> "m"])
      @@
      (IF Len(lin) < 2 THEN EmptyMap
       ELSE ((100 * c + 32) :> [kind |-> opts[c].kind, ref |-> 100 * lin[2] + 1,
                                name |-> "h"])
            @@
            ((100 * c + 33) :> [kind |-> "Identifier", ref |-> 100 * lin[2] + 11,
                                name |-> "v" \o ToString(lin[2])]))

WithDefault(opts, d) == [c \in CIds |-> IF c \in DOMAIN opts THEN opts[c] ELSE d]

ReferencePrograms ==
  {Program([c \in CIds |-> ReferenceContract(c, shape, WithDefault(opts, DefaultReference))],
           [c \in CIds |-> ReferenceHeap(c, shape, WithDefault(opts, DefaultReference))]) :
     shape \in Shapes, opts \in [1..3 -> ReferenceOptions]}

\* --- constructors: every contract declares a state variable k<c>; it may
\* declare a constructor (c0: no parameter, c1: one parameter, nobody: no
\* parameter and no body) whose body, when it has one, is OwnStatements
\* statements referring to k<c>.  The arguments of its bases' constructors
\* are given nowhere (none), at the inheritance specifiers (spec), or by a
\* modifier invocation of its constructor naming its first base (mod); an
\* argument is an Identifier of k<c>.
OwnStatements == 2
ConstructorOptions ==
  {o \in [ctor : {"none", "c0", "c1", "nobody"}, supply : {"none", "spec", "mod"}] :
     o.supply = "mod" => o.ctor # "none"}
DefaultConstructor == [ctor |-> "none", supply |-> "none"]

paramsOf(o) == IF o.ctor = "c1" THEN 1 ELSE 0

ConstructorContract(c, shape, opts) ==
  LET direct == DirectOf(shape, c)
      o      == opts[c]
      minv   == IF o.supply = "mod" /\ direct # <<>>
                THEN <<[ref  |-> 100 * c + 50,
                        args |-> IF paramsOf(opts[direct[1]]) = 1
                                 THEN <<100 * c + 51>> ELSE <<>>]>>
                ELSE <<>>
      body   == IF o.ctor = "nobody" THEN <<>>
                ELSE [j \in 1..OwnStatements |->
                        [src |-> 100 * c + 60 + j, refs |-> <<100 * c + 40 + j>>]]
  IN  [lin   |-> LinOf(shape, c),
       funcs |-> IF o.ctor = "none" THEN <<>>
                 ELSE <<mkConstructor(c, paramsOf(o), minv, o.ctor # "nobody", body)>>,
       vars  |-> <<mkDeclaration(c, 11, "k" \o ToString(c))>>,
       mods  |-> <<>>,
       specs |-> mkSpecifiers(direct,
                   [k \in DOMAIN direct |->
                      IF o.supply = "spec" /\ paramsOf(opts[direct[k]]) = 1
                      THEN <<100 * c + 55 + k>> ELSE <<>>])]

ConstructorHeap(c, shape, opts) ==
  LET direct == DirectOf(shape, c)
      own    == [kind |-> "Identifier", ref |-> 100 * c + 11, name |-> "k" \o ToString(c)]
  IN  (IF direct = <<>> THEN EmptyMap
       ELSE (100 * c + 50) :> [kind |-> "IdentifierPath", ref |-> direct[1],
                               name |-> "C" \o ToString(direct[1])])
      @@ [x \in {100 * c + 51} \cup {100 * c + 40 + j : j \in 1..OwnStatements}
                 \cup {100 * c + 55 + k : k \in DOMAIN direct} |-> own]

ConstructorPrograms ==
  {Program([c \in CIds |-> ConstructorContract(c, shape, WithDefault(opts, DefaultConstructor))],
           [c \in CIds |-> ConstructorHeap(c, shape, WithDefault(opts, DefaultConstructor))]) :
     shape \in Shapes, opts \in [1..3 -> ConstructorOptions]}

\* --- every hierarchy: each of the first SchedContracts contracts lists any
\* sequence of the others as its bases, consistent or not; each contract
\* declares one external function f<c>.
BaseLists == DistinctSeqs(1..(SchedContracts - 1), SchedContracts - 1)

\* A list over 1..SchedContracts-1 read as a list of the contracts other than c.
OthersOf(c, list) == [i \in DOMAIN list |-> IF list[i] >= c THEN list[i] + 1 ELSE list[i]]

SchedulerContract(c, lin) ==
  [lin   |-> lin,
   funcs |-> <<mkFunction(c, 1, "f" \o ToString(c), "external", <<>>, <<>>)>>,
   vars  |-> <<>>,
   mods  |-> <<>>,
   specs |-> mkSpecifiers(Tail(lin), NoArgs(Tail(lin)))]

SchedulerPrograms ==
  {Program([c \in CIds |-> SchedulerContract(c, IF c \in DOMAIN bases
                                                THEN <<c>> \o OthersOf(c, bases[c])
                                                ELSE <<c>>)],
           [c \in CIds |-> EmptyMap]) :
     bases \in [1..SchedContracts -> BaseLists]}
  \cup
  {Program([c \in CIds |-> SchedulerContract(c, LinOf(shape, c))],
           [c \in CIds |-> EmptyMap]) : shape \in Shapes}

----------------------------------------------------------------------------
\* The state machine.

InitWith(programs) ==
  \E p \in programs :
    /\ ctr = p.ctr
    /\ heap = p.heap
    /\ nextId = FirstFreshId
    /\ contracts = [i \in 1..MaxContracts |-> i]
    /\ mostDerivedContracts = <<>>
    /\ visited = <<>>
    /\ flattened = {}
    /\ result = "running"
    /\ orig = [ctr |-> p.ctr, heap |-> p.heap]

\* One turn of the while loop up to the forEach: the round's batch is taken
\* out of the pending contracts.
Round ==
  /\ result = "running"
  /\ mostDerivedContracts = <<>>
  /\ Len(contracts) > 0
  /\ LET batch == MostDerived(ctr, contracts)
     IN  /\ Len(batch) # 0
         /\ mostDerivedContracts' = batch
         /\ contracts' = SelectSeq(contracts, LAMBDA c : c \notin Range(batch))
  /\ UNCHANGED <<ctr, heap, nextId, visited, flattened, result, orig>>

\* The throw of the while loop.
ThrowUnserialisable ==
  /\ result = "running"
  /\ mostDerivedContracts = <<>>
  /\ Len(contracts) > 0
  /\ Len(MostDerived(ctr, contracts)) = 0
  /\ result' = "Unable to serialise contracts"
  /\ UNCHANGED <<ctr, heap, nextId, contracts, mostDerivedContracts, visited,
                 flattened, orig>>

\* One call of the forEach: pass.visitContractDefinition(contract, ast).  What
\* it throws leaves map(); the tree keeps what was done to it.
Visit ==
  /\ result = "running"
  /\ mostDerivedContracts # <<>>
  /\ LET contract == Head(mostDerivedContracts)
         s == visitContractDefinition(
                [ctr |-> ctr, heap |-> heap, nextId |-> nextId, err |-> ""], contract)
     IN  /\ ctr' = s.ctr
         /\ heap' = s.heap
         /\ nextId' = s.nextId
         /\ visited' = Append(visited, contract)
         /\ flattened' = IF s.err = "" THEN flattened \cup {contract} ELSE flattened
         /\ result' = IF s.err = "" THEN result ELSE s.err
  /\ mostDerivedContracts' = Tail(mostDerivedContracts)
  /\ UNCHANGED <<contracts, orig>>

\* return ast
Return ==
  /\ result = "running"
  /\ mostDerivedContracts = <<>>
  /\ Len(contracts) = 0
  /\ result' = "returned"
  /\ UNCHANGED <<ctr, heap, nextId, contracts, mostDerivedContracts, visited,
                 flattened, orig>>

Next == Round \/ ThrowUnserialisable \/ Visit \/ Return

SpecSched    == InitWith(SchedulerPrograms) /\ [][Next]_vars
SpecFunc     == InitWith(FunctionPrograms) /\ [][Next]_vars
SpecStorage  == InitWith(StoragePrograms) /\ [][Next]_vars
SpecRef      == InitWith(ReferencePrograms) /\ [][Next]_vars
SpecCtor     == InitWith(ConstructorPrograms) /\ [][Next]_vars
Init == InitWith(SchedulerPrograms \cup FunctionPrograms \cup StoragePrograms
                   \cup ReferencePrograms \cup ConstructorPrograms)
Spec == Init /\ [][Next]_vars

----------------------------------------------------------------------------
\* What the claims speak of.

\* The contracts whose flattening has been done: visited, returned from, and
\* with at least one base.
Flattened == {c \in flattened : Len(orig.ctr[c].lin) >= 2}

BasesOf(c) == getBaseContracts(orig.ctr[c])

\* Some non-empty set of contracts in which each is a base of another of the
\* set: removing the contracts that are nobody's base never empties it.
Unserialisable ==
  \E S \in (SUBSET CIds) \ {{}} :
    \A c \in S : \E d \in S : c \in Range(BasesOf(d))

VisitedBefore(i) == {visited[k] : k \in 1..(i - 1)}

NamesOf(decls) == [i \in DOMAIN decls |-> decls[i].name]

declaresFunction(c, name) ==
  \E i \in DOMAIN orig.ctr[c].funcs :
    orig.ctr[c].funcs[i].name = name /\ ~orig.ctr[c].funcs[i].isCtor

hasConstructor(c) == vConstructor(orig.ctr[c]) # <<>>

\* Every contract lists the bases of its bases among its own, as a
\* linearization does.
Consistent ==
  \A c \in CIds : \A b \in Range(BasesOf(c)) :
    Range(BasesOf(b)) \ {c} \subseteq Range(BasesOf(c))

\* (C1) map visits no contract twice; a contract is visited only when every
\* contract that has it among its base contracts has been visited before; when
\* map returns every contract has been visited; and on a hierarchy that can
\* be serialised (diamonds among them) the scheduler never gives up, and map
\* ends by returning when the base lists are consistent.
C1_VisitOrder ==
  /\ \A i, j \in DOMAIN visited : i # j => visited[i] # visited[j]
  /\ \A i \in DOMAIN visited :
       \A x \in CIds \ VisitedBefore(i) : visited[i] \notin Range(BasesOf(x))
  /\ result = "returned" => Range(visited) = CIds /\ flattened = CIds
  /\ ~Unserialisable => result # "Unable to serialise contracts"
  /\ ~Unserialisable /\ Consistent => result \in {"running", "returned"}
  /\ ~Unserialisable /\ Consistent /\ result = "running" =>
       ENABLED Round \/ mostDerivedContracts # <<>> \/ ENABLED Return

\* map has returned from a hierarchy in which two contracts share a base and
\* one contract has two bases.
C1_Witness ==
  /\ result = "returned"
  /\ Len(visited) = MaxContracts
  /\ \E c \in CIds : Len(BasesOf(c)) >= 2
  /\ \E c, d \in CIds : c # d /\ Range(BasesOf(c)) \cap Range(BasesOf(d)) # {}

\* (C3) On a hierarchy that cannot be serialised map ends by throwing 'Unable
\* to serialise contracts'.  Stated for consistent base lists.
C3_MalformedError ==
  Unserialisable /\ Consistent /\ result # "running"
    => result = "Unable to serialise contracts"

\* The calls the constructor of c has to start with: one per base that
\* declares a constructor, the base at the end of the linearized list first.
RECURSIVE ExpectedCalls(_, _)
ExpectedCalls(c, i) ==
  IF i < 2 THEN <<>>
  ELSE (IF hasConstructor(orig.ctr[c].lin[i])
        THEN <<"__warp_constructor_" \o ToString(orig.ctr[c].lin[i])>> ELSE <<>>)
       \o ExpectedCalls(c, i - 1)

\* (C6) After flattening a contract that declares a constructor, the
\* constructor's body is one call per base that declares a constructor, the
\* farthest base first and the nearest last, each call naming that base's
\* private clone in the contract, and then the contract's own statements in
\* their order.
C6_ConstructorOrder ==
  \A c \in Flattened :
    hasConstructor(c) =>
      LET calls == ExpectedCalls(c, Len(orig.ctr[c].lin))
          own   == vConstructor(orig.ctr[c])[1].body
          now   == vConstructor(ctr[c])
      IN  /\ Len(now) = 1
          /\ Len(now[1].body) = Len(calls) + Len(own)
          /\ \A i \in DOMAIN calls :
               /\ now[1].body[i].src = 0
               /\ heap[now[1].body[i].refs[1]].name = calls[i]
               /\ \E k \in DOMAIN ctr[c].funcs :
                    /\ ctr[c].funcs[k].id = heap[now[1].body[i].refs[1]].ref
                    /\ ctr[c].funcs[k].name = calls[i]
                    /\ ~ctr[c].funcs[k].isCtor
          /\ \A j \in DOMAIN own : now[1].body[Len(calls) + j].src = own[j].src

\* A flattened contract whose constructor had statements and two of whose
\* bases declare a constructor.
C6_Witness ==
  \E c \in Flattened :
    /\ hasConstructor(c)
    /\ Len(vConstructor(orig.ctr[c])[1].body) = OwnStatements
    /\ Len(ExpectedCalls(c, Len(orig.ctr[c].lin))) >= 2
    /\ Len(vConstructor(ctr[c])[1].body) = OwnStatements + 2

\* The reference nodes and declarations of a contract of the tree map() was
\* given.
UnchangedSince(b) ==
  /\ ctr[b] = orig.ctr[b]
  /\ \A x \in Range(ContractNodes(orig.ctr[b])) : heap[x] = orig.heap[x]

\* The contracts a visit of d reads as bases: its linearized bases and the
\* contracts reached through first bases.
ReadBy(d) ==
  (Range(BasesOf(d)) \cup Range(firstBaseChain(orig.ctr, d, <<>>).chain)) \ {d}

\* (C2) When a contract is flattened none of the contracts it reads as a base
\* has been flattened, and flattening it changes nothing in them: a base that
\* is still to be visited has the declarations, modifier-invocation arguments
\* and specifier arguments map() was given.
C2_BasesPristine ==
  /\ \A i \in DOMAIN visited : ReadBy(visited[i]) \cap VisitedBefore(i + 1) = {}
  /\ \A d \in Flattened :
       \A b \in Range(BasesOf(d)) \ Range(visited) : UnchangedSince(b)

\* The first half of (C2) alone: the bases a visit reads are still to be
\* visited.
C2_BasesUnvisited ==
  \A i \in DOMAIN visited : ReadBy(visited[i]) \cap VisitedBefore(i + 1) = {}

\* The position in the bases of c of the first that declares a function `name`.
FirstDeclaring(c, name) ==
  CHOOSE i \in DOMAIN BasesOf(c) :
    /\ declaresFunction(BasesOf(c)[i], name)
    /\ \A j \in 1..(i - 1) : ~declaresFunction(BasesOf(c)[j], name)

\* The function of contract c now that is externally visible, named `name`,
\* and whose body is the call of the private function `delegate` of c.
Delegates(c, name, delegate) ==
  \E i, k \in DOMAIN ctr[c].funcs :
    LET f == ctr[c].funcs[i]
        g == ctr[c].funcs[k]
    IN  /\ f.name = name /\ isExternallyVisible(f)
        /\ g.name = delegate /\ g.vis = "private"
        /\ Len(f.body) = 1
        /\ heap[f.body[1].refs[1]].ref = g.id
        /\ heap[f.body[1].refs[1]].name = delegate

\* (C4) For a flattened contract and a name of its visible interface that it
\* does not declare, the contract has a delegating function of that name that
\* calls the clone <name>_s<i> of the first base, in linearized order, that
\* declares the name, i being that base's position.
C4_MostDerivedWins ==
  ~Unserialisable =>
    \A c \in Flattened :
      \A name \in Range(squashInterface(orig.ctr, c)) :
        ~declaresFunction(c, name) =>
          Delegates(c, name, name \o "_s" \o ToString(FirstDeclaring(c, name)))

\* The names of the public and external functions, constructors apart, that
\* c or a contract of its linearized list declares.
FullInterface(c) ==
  {orig.ctr[b].funcs[i].name :
     <<b, i>> \in {p \in CIds \X (1..9) :
                     /\ p[1] \in Range(orig.ctr[c].lin)
                     /\ p[2] \in DOMAIN orig.ctr[p[1]].funcs
                     /\ isExternallyVisible(orig.ctr[p[1]].funcs[p[2]])
                     /\ ~orig.ctr[p[1]].funcs[p[2]].isCtor}}

\* (C9) squashInterface gives the names of all public and external functions
\* of the contract and of its linearized bases, and each of them is an
\* externally visible function of the flattened contract.
C9_FullInterface ==
  ~Unserialisable =>
    \A c \in Flattened :
      /\ Range(squashInterface(orig.ctr, c)) = FullInterface(c)
      /\ \A name \in FullInterface(c) :
           \E i \in DOMAIN ctr[c].funcs :
             ctr[c].funcs[i].name = name /\ isExternallyVisible(ctr[c].funcs[i])

\* (C5) A flattened contract has no two state variables of one name, and a
\* name the contract declares itself is the contract's own declaration.
C5_UniqueVariables ==
  \A c \in Flattened :
    /\ \A i, j \in DOMAIN ctr[c].vars :
         i # j => ctr[c].vars[i].name # ctr[c].vars[j].name
    /\ \A k \in DOMAIN orig.ctr[c].vars :
         \A i \in DOMAIN ctr[c].vars :
           ctr[c].vars[i].name = orig.ctr[c].vars[k].name
             => ctr[c].vars[i].id = orig.ctr[c].vars[k].id

\* (C10) The state variables of a flattened contract are the merged inherited
\* variables in the merge map's iteration order, then the contract's own.
C10_StorageOrder ==
  \A c \in Flattened :
    NamesOf(ctr[c].vars)
      = NamesOf(inheritedVariables(orig.ctr, c)) \o NamesOf(orig.ctr[c].vars)

\* (C8) A flattened contract that declares no constructor and has a base that
\* declares one has a constructor, whose body holds the calls of the bases'
\* constructor clones.
C8_DefaultConstructor ==
  \A c \in Flattened :
    (~hasConstructor(c) /\ \E b \in Range(BasesOf(c)) : hasConstructor(b)) =>
      /\ vConstructor(ctr[c]) # <<>>
      /\ Len(vConstructor(ctr[c])[1].body) = Len(ExpectedCalls(c, Len(orig.ctr[c].lin)))

\* The ids of the functions, state variables and modifiers the bases of c
\* declare.
BaseDeclarations(c) ==
  UNION {{orig.ctr[b].funcs[i].id : i \in DOMAIN orig.ctr[b].funcs}
           \cup {orig.ctr[b].vars[i].id : i \in DOMAIN orig.ctr[b].vars}
           \cup {orig.ctr[b].mods[i].id : i \in DOMAIN orig.ctr[b].mods} :
         b \in Range(BasesOf(c))}

\* The declarations contract c owns now, as [id, name].
OwnDeclarations(c) ==
  {[id |-> ctr[c].funcs[i].id, name |-> ctr[c].funcs[i].name] : i \in DOMAIN ctr[c].funcs}
    \cup {[id |-> ctr[c].vars[i].id, name |-> ctr[c].vars[i].name] : i \in DOMAIN ctr[c].vars}
    \cup {[id |-> ctr[c].mods[i].id, name |-> ctr[c].mods[i].name] : i \in DOMAIN ctr[c].mods}

\* (C7) In a flattened contract no reference targets a declaration of a base,
\* and every reference to a function, variable or modifier targets a
\* declaration the contract owns, under the name the reference carries.
C7_ReferencesLocal ==
  \A c \in Flattened :
    \A x \in Range(ContractNodes(ctr[c])) :
      /\ heap[x].ref \notin BaseDeclarations(c)
      /\ heap[x].ref \notin CIds
           => [id |-> heap[x].ref, name |-> heap[x].name] \in OwnDeclarations(c)

====
